---- MODULE Spec2Model ----
(***************************************************************************)
(* Model of the user synchronisation application: UserSyncService          *)
(* (sync_service.py), DatabaseManager (database.py) and ExternalAPIClient  *)
(* (api_client.py).  One run of sync_users lists the users, runs one       *)
(* fetch_and_prepare_update coroutine per user under a semaphore, gathers  *)
(* the results, writes the updates in batches and returns statistics.      *)
(***************************************************************************)
EXTENDS Integers, Sequences, FiniteSets, TLC

VARIABLES
    config,          \* Config.CONCURRENT_REQUESTS, Config.BATCH_SIZE
    store,           \* the MongoDB collection: sequence of documents
    remote,          \* the external API's answer for each document's identifier
    phase,           \* position of sync_users
    users,           \* the list returned by get_all_users
    units,           \* one fetch_and_prepare_update coroutine per listed user
    semaphore,       \* value of UserSyncService.semaphore
    updates,         \* the list handed to bulk_update_users
    batch_i,         \* loop variable i of bulk_update_users
    total_modified,  \* accumulator of bulk_update_users
    writes,          \* the bulk_write calls answered so far, in order, each
                     \* with its batch and the modified_count it reported
    stats,           \* the dictionary returned by sync_users
    clock            \* datetime.utcnow(), one tick per run

vars == <<config, store, remote, phase, users, units, semaphore, updates,
          batch_i, total_modified, writes, stats, clock>>

----------------------------------------------------------------------------
(* Bounds of the model *)

MaxUsers == 2

MaxConcurrent == 2

MaxBatch == 2

MaxRuns == 2

(* Program constants *)

StopAfterAttempt == 3

----------------------------------------------------------------------------
(* Data *)

None == "None"

TrackedFields == {"phone_number", "city", "state"}

FieldValues == {None, "111", "999"}

\* user_id of document d when the field is present, and str(_id) of document d
UserIdOf(d) == <<"user_id", d>>

StrOid(d) == <<"_id", d>>

NoUserId == <<"user_id", 0>>

Min(a, b) == IF a < b THEN a ELSE b

\* A document of the collection, as projected by get_all_users.  A document
\* that has no user_id field carries NoUserId; last_synced 0 is "never".
Document(d, uid, phone, city, state) ==
    [_id |-> d, user_id |-> uid, phone_number |-> phone, city |-> city,
     state |-> state, last_synced |-> 0]

\* The decoded body of an API answer.  kind is "None" (no body: 404, or an
\* exception swallowed inside get_user_info), "dict" (a JSON object with at
\* least one key), "empty_dict" (the JSON object {}) or "not_dict" (a
\* non-empty JSON value that is no object).  A tracked key that is missing
\* or null reads as None through dict.get.
ApiData(kind, phone, city, state) ==
    [kind |-> kind, phone_number |-> phone, city |-> city, state |-> state]

ApiNone == ApiData("None", None, None, None)

EmptyDict == ApiData("empty_dict", None, None, None)

NotDict == ApiData("not_dict", None, None, None)

\* models.UserUpdate
UserUpdate(user_id, phone, city, state, last_synced) ==
    [user_id |-> user_id, phone_number |-> phone, city |-> city,
     state |-> state, last_synced |-> last_synced]

NoUpdate == UserUpdate(NoUserId, None, None, None, 0)

\* What a unit hands to gather: None, a UserUpdate or an exception.
ResultNone == [type |-> "None", update |-> NoUpdate]

ResultUpdate(u) == [type |-> "UserUpdate", update |-> u]

ResultException == [type |-> "Exception", update |-> NoUpdate]

Pending == [type |-> "pending", update |-> NoUpdate]

----------------------------------------------------------------------------
(* fetch_and_prepare_update: the pure part *)

\* user.get("user_id") or str(user.get("_id"))
Identifier(user) ==
    IF user.user_id # NoUserId THEN user.user_id ELSE StrOid(user._id)

\* "if not api_data": None and the empty dict are falsy
Falsy(api_data) == api_data.kind \in {"None", "empty_dict"}

\* api_data.get(...) raises AttributeError on a value that is no dict
GetRaises(api_data) == api_data.kind = "not_dict"

\* a comparison that leaves out the phone number
HasChangesWithoutPhone(user, api_data) ==
    \/ user.city # api_data.city
    \/ user.state # api_data.state

\* current_phone != api_phone or current_city != api_city or ...
HasChanges(user, api_data) ==
    \/ user.phone_number # api_data.phone_number
    \/ user.city # api_data.city
    \/ user.state # api_data.state

\* The UserUpdate built when changes are detected
PrepareUpdate(user, api_data, now) ==
    UserUpdate(Identifier(user), api_data.phone_number, api_data.city,
               api_data.state, now)

\* The result of the unit once get_user_info has returned api_data
\* (lines 43-72); an exception inside the try block yields None.
CompareResult(user, api_data, now) ==
    IF Falsy(api_data) THEN ResultNone
    ELSE IF GetRaises(api_data) THEN ResultNone
    ELSE IF HasChanges(user, api_data)
         THEN ResultUpdate(PrepareUpdate(user, api_data, now))
         ELSE ResultNone

\* The result of the unit when get_user_info raises (tenacity's RetryError)
ExceptionResult == ResultNone

----------------------------------------------------------------------------
(* bulk_update_users: the pure part *)

\* a $set document that carries every tracked field, None included
SetKeysAll(update) == {"last_synced"} \cup TrackedFields

\* The keys of the $set document of one update
SetKeys(update) ==
    {"last_synced"} \cup {f \in TrackedFields : update[f] # None}

\* One update_one operation: filter {"user_id": ...}, update {"$set": ...}
Operation(update) ==
    [filter |-> update.user_id,
     set |-> [f \in SetKeys(update) |-> update[f]]]

Operations(upds) == [k \in 1..Len(upds) |-> Operation(upds[k])]

\* a slice that runs one operation into the next batch
BatchOverlapping(ops, i, batch_size) ==
    SubSeq(ops, i + 1, Min(i + batch_size + 1, Len(ops)))

\* operations[i:i + batch_size]
Batch(ops, i, batch_size) == SubSeq(ops, i + 1, Min(i + batch_size, Len(ops)))

\* The documents an update_one filter matches
Matches(st, op) == {d \in 1..Len(st) : st[d].user_id = op.filter}

ApplySet(doc, op) ==
    [f \in DOMAIN doc |-> IF f \in DOMAIN op.set THEN op.set[f] ELSE doc[f]]

\* update_one with upsert True: a filter that matches nothing inserts
ApplyOperationUpsert(st, op) ==
    IF Matches(st, op) = {}
    THEN Append(st, ApplySet([_id |-> Len(st) + 1, user_id |-> op.filter,
                              phone_number |-> None, city |-> None,
                              state |-> None, last_synced |-> 0], op))
    ELSE LET d == CHOOSE x \in Matches(st, op) :
                      \A y \in Matches(st, op) : x <= y
         IN  [st EXCEPT ![d] = ApplySet(st[d], op)]

\* update_one with upsert False: the first matching document, if any
ApplyOperation(st, op) ==
    IF Matches(st, op) = {} THEN st
    ELSE LET d == CHOOSE x \in Matches(st, op) :
                      \A y \in Matches(st, op) : x <= y
         IN  [st EXCEPT ![d] = ApplySet(st[d], op)]

\* modified_count of one operation
ModifiedBy(st, op) == IF ApplyOperation(st, op) # st THEN 1 ELSE 0

RECURSIVE ApplyBatch(_, _)
ApplyBatch(st, batch) ==
    IF batch = <<>> THEN st
    ELSE ApplyBatch(ApplyOperation(st, Head(batch)), Tail(batch))

\* The operations of a batch at the given positions, in order
SelectOps(batch, keep) ==
    LET F[i \in 0..Len(batch)] ==
            IF i = 0 THEN <<>>
            ELSE IF i \in keep THEN Append(F[i - 1], batch[i]) ELSE F[i - 1]
    IN  F[Len(batch)]

RECURSIVE ModifiedCount(_, _)
ModifiedCount(st, batch) ==
    IF batch = <<>> THEN 0
    ELSE ModifiedBy(st, Head(batch))
         + ModifiedCount(ApplyOperation(st, Head(batch)), Tail(batch))

----------------------------------------------------------------------------
(* State of the units and of the run *)

\* A unit before it has acquired the semaphore
NewUnit == [pc |-> "waiting", attempt |-> 0, result |-> Pending, cause |-> "none"]

\* A unit that has returned: its result, and why (cause is the outcome the
\* unit really had: "updated", "unchanged", "not_found", "no_data",
\* "lookup_failed" or "fault")
Finished(unit, result, cause) ==
    [unit EXCEPT !.pc = "done", !.result = result, !.cause = cause]

NoStats == [total_users |-> 0, users_checked |-> 0, users_updated |-> 0, errors |-> 0]

UnitIds == 1..Len(units)

InLookup(d) == units[d].pc = "lookup"

HoldsSlot(d) == units[d].pc \in {"sleeping", "lookup"}

\* gather mistaken for a wait that returns on the first completion
SomeUnitDone == \E d \in UnitIds : units[d].pc = "done"

\* asyncio.gather returns when every awaitable has finished
AllUnitsDone == \A d \in UnitIds : units[d].pc = "done"

\* results of gather, in the order of the tasks
Results == [d \in UnitIds |-> units[d].result]

\* a semaphore that never blocks
SemaphoreNeverLocked == FALSE

\* Semaphore.locked(): no slot is free
SemaphoreLocked == semaphore <= 0

----------------------------------------------------------------------------
(* sync_users: listing and fan-out *)

\* get_all_users returns the documents; one coroutine per user is handed
\* to gather (lines 86-91)
GetAllUsers ==
    /\ phase = "start"
    /\ users' = store
    /\ units' = [d \in 1..Len(store) |-> NewUnit]
    /\ phase' = "gather"
    /\ UNCHANGED <<config, store, remote, semaphore, updates, batch_i,
                   total_modified, writes, stats, clock>>

\* a listing fault that is swallowed: the run goes on with an empty list
GetAllUsersFailsSwallowed ==
    /\ phase = "start"
    /\ phase' = "gather"
    /\ UNCHANGED <<config, store, remote, users, units, semaphore, updates,
                   batch_i, total_modified, writes, stats, clock>>

\* get_all_users raises PyMongoError; sync_users logs and re-raises
GetAllUsersFails ==
    /\ phase = "start"
    /\ phase' = "failed_listing"
    /\ UNCHANGED <<config, store, remote, users, units, semaphore, updates,
                   batch_i, total_modified, writes, stats, clock>>

----------------------------------------------------------------------------
(* fetch_and_prepare_update, one unit *)

\* async with self.semaphore: the unit enters when a slot is free
Acquire(d) ==
    /\ phase = "gather"
    /\ units[d].pc = "waiting"
    /\ ~SemaphoreLocked
    /\ semaphore' = semaphore - 1
    /\ units' = [units EXCEPT ![d].pc = "sleeping"]
    /\ UNCHANGED <<config, store, remote, phase, users, updates, batch_i,
                   total_modified, writes, stats, clock>>

\* asyncio.sleep(REQUEST_DELAY) returns; get_user_info starts its first attempt
RequestDelayOver(d) ==
    /\ phase = "gather"
    /\ units[d].pc = "sleeping"
    /\ units' = [units EXCEPT ![d].pc = "lookup", ![d].attempt = 1]
    /\ UNCHANGED <<config, store, remote, phase, users, semaphore, updates,
                   batch_i, total_modified, writes, stats, clock>>

\* a return that keeps the slot the unit holds
ReturnKeepingSlot(d, result, cause) ==
    /\ units' = [units EXCEPT ![d] = Finished(units[d], result, cause)]
    /\ UNCHANGED <<config, store, remote, phase, users, semaphore, updates,
                   batch_i, total_modified, writes, stats, clock>>

\* The unit returns `result`: leaving the with block releases the semaphore
Return(d, result, cause) ==
    /\ units' = [units EXCEPT ![d] = Finished(units[d], result, cause)]
    /\ semaphore' = semaphore + 1
    /\ UNCHANGED <<config, store, remote, phase, users, updates, batch_i,
                   total_modified, writes, stats, clock>>

CauseOf(user, api_data) ==
    IF api_data.kind = "empty_dict" THEN "no_data"
    ELSE IF GetRaises(api_data) THEN "fault"
    ELSE IF HasChanges(user, api_data) THEN "updated" ELSE "unchanged"

\* The attempt is answered 200: response.json() is returned and compared
Respond200(d) ==
    /\ phase = "gather"
    /\ InLookup(d)
    /\ remote[d].status = 200
    /\ Return(d, CompareResult(users[d], remote[d].body, clock),
              CauseOf(users[d], remote[d].body))

\* a 404 that is raised like any other error status and reaches gather
Respond404Raises(d) ==
    /\ phase = "gather"
    /\ InLookup(d)
    /\ remote[d].status = 404
    /\ Return(d, ResultException, "not_found")

\* The attempt is answered 404: get_user_info returns None
Respond404(d) ==
    /\ phase = "gather"
    /\ InLookup(d)
    /\ remote[d].status = 404
    /\ Return(d, CompareResult(users[d], ApiNone, clock), "not_found")

\* a stop condition that allows one attempt more
MayRetryOnceMore(attempt) == attempt <= StopAfterAttempt

\* stop=stop_after_attempt(3): a failed attempt is followed by another one
\* only while fewer than 3 attempts were made
MayRetry(attempt) == attempt < StopAfterAttempt

\* The attempt raises aiohttp.ClientError (connection error, or another
\* status through raise_for_status): re-raised, and tenacity tries again
\* after its wait
RetryAfterClientError(d) ==
    /\ phase = "gather"
    /\ InLookup(d)
    /\ MayRetry(units[d].attempt)
    /\ units' = [units EXCEPT ![d].attempt = @ + 1]
    /\ UNCHANGED <<config, store, remote, phase, users, semaphore, updates,
                   batch_i, total_modified, writes, stats, clock>>

\* The last attempt raises aiohttp.ClientError: tenacity raises RetryError,
\* which fetch_and_prepare_update catches (lines 70-72)
RetriesExhausted(d) ==
    /\ phase = "gather"
    /\ InLookup(d)
    /\ units[d].attempt = StopAfterAttempt
    /\ Return(d, ExceptionResult, "lookup_failed")

\* The attempt raises an exception that is no ClientError (a timeout of the
\* whole request, undecodable JSON): get_user_info catches it and returns None
SwallowedException(d) ==
    /\ phase = "gather"
    /\ InLookup(d)
    /\ Return(d, CompareResult(users[d], ApiNone, clock), "fault")

----------------------------------------------------------------------------
(* sync_users: after gather *)

\* a filter that stops at the first result that is no UserUpdate
RECURSIVE FilterUpdatesPrefix(_)
FilterUpdatesPrefix(results) ==
    IF results = <<>> THEN <<>>
    ELSE IF Head(results).type = "UserUpdate"
         THEN <<Head(results).update>> \o FilterUpdatesPrefix(Tail(results))
         ELSE <<>>

\* updates = [result for result in results if isinstance(result, UserUpdate)]
RECURSIVE FilterUpdates(_)
FilterUpdates(results) ==
    IF results = <<>> THEN <<>>
    ELSE IF Head(results).type = "UserUpdate"
         THEN <<Head(results).update>> \o FilterUpdates(Tail(results))
         ELSE FilterUpdates(Tail(results))

RECURSIVE CountType(_, _)
CountType(results, types) ==
    IF results = <<>> THEN 0
    ELSE (IF Head(results).type \in types THEN 1 ELSE 0)
         + CountType(Tail(results), types)

\* errors_count = len([r for r in results if isinstance(r, Exception)])
ErrorsCount(results) == CountType(results, {"Exception"})

\* users_checked counting only the results that carry an update
UsersCheckedUpdatesOnly(results) == CountType(results, {"UserUpdate"})

\* len([r for r in results if not isinstance(r, Exception)])
UsersChecked(results) == CountType(results, {"None", "UserUpdate"})

\* users_updated taken from the number of updates handed to persistence
StatisticsCountingUpdates(modified_count) ==
    [total_users |-> Len(users),
     users_checked |-> CountType(Results, {"None", "UserUpdate"}),
     users_updated |-> Len(updates),
     errors |-> CountType(Results, {"Exception"})]

\* The stats dictionary (lines 108-114), without the duration
Statistics(modified_count) ==
    [total_users |-> Len(users),
     users_checked |-> UsersChecked(Results),
     users_updated |-> modified_count,
     errors |-> ErrorsCount(Results)]

\* a run that calls bulk_update_users whatever the list holds
NeverSkipsPersistence(upds) == FALSE

\* "if updates:" is false: the empty list is falsy
NothingToUpdate(upds) == upds = <<>>

\* gather has returned; with no update sync_users returns its statistics,
\* otherwise it calls bulk_update_users (lines 93-102)
GatherReturns ==
    /\ phase = "gather"
    /\ AllUnitsDone
    /\ updates' = FilterUpdates(Results)
    /\ IF NothingToUpdate(updates')
       THEN /\ phase' = "done"
            /\ stats' = Statistics(0)
       ELSE /\ phase' = "persist"
            /\ stats' = stats
    /\ batch_i' = 0
    /\ total_modified' = 0
    /\ UNCHANGED <<config, store, remote, users, units, semaphore, writes, clock>>

\* Loop test of bulk_update_users: range(0, len(operations), batch_size)
MoreBatches(i) == i < Len(updates)

\* One iteration of the loop of bulk_update_users: bulk_write succeeds.
\* After the last batch bulk_update_users returns total_modified and
\* sync_users returns its statistics.
BulkWrite ==
    /\ phase = "persist"
    /\ MoreBatches(batch_i)
    /\ LET batch == Batch(Operations(updates), batch_i, config.BATCH_SIZE)
           modified == total_modified + ModifiedCount(store, batch)
       IN  /\ store' = ApplyBatch(store, batch)
           /\ writes' = Append(writes,
                  [batch |-> batch, modified_count |-> ModifiedCount(store, batch)])
           /\ total_modified' = modified
           /\ batch_i' = batch_i + config.BATCH_SIZE
           /\ IF MoreBatches(batch_i')
              THEN /\ phase' = "persist"
                   /\ stats' = stats
              ELSE /\ phase' = "done"
                   /\ stats' = Statistics(modified)
    /\ UNCHANGED <<config, remote, users, units, semaphore, updates, clock>>

\* a failed bulk_write that is logged and skipped: the loop goes on
BulkWriteFailsSkipped ==
    /\ phase = "persist"
    /\ MoreBatches(batch_i)
    /\ batch_i' = batch_i + config.BATCH_SIZE
    /\ IF MoreBatches(batch_i')
       THEN /\ phase' = "persist"
            /\ stats' = stats
       ELSE /\ phase' = "done"
            /\ stats' = Statistics(total_modified)
    /\ UNCHANGED <<config, store, remote, users, units, semaphore, updates,
                   total_modified, writes, clock>>

\* bulk_write raises PyMongoError: bulk_update_users and sync_users re-raise
\* (the server may have applied any of the operations of the unordered
\* batch before the error)
BulkWriteFails ==
    /\ phase = "persist"
    /\ MoreBatches(batch_i)
    /\ LET batch == Batch(Operations(updates), batch_i, config.BATCH_SIZE)
       IN  \E applied \in SUBSET (1..Len(batch)) :
              store' = ApplyBatch(store, SelectOps(batch, applied))
    /\ phase' = "failed_persistence"
    /\ UNCHANGED <<config, remote, users, units, semaphore, updates,
                   batch_i, total_modified, writes, stats, clock>>

----------------------------------------------------------------------------
(* Initial states *)

Configs ==
    [CONCURRENT_REQUESTS : 1..MaxConcurrent, BATCH_SIZE : 1..MaxBatch]

\* The state before sync_users is called, for a collection and a remote
\* service drawn from the given sets
InitWith(sizes, docs, remotes) ==
    /\ config \in Configs
    /\ \E n \in sizes :
          /\ store \in {st \in [1..n -> UNION {docs[d] : d \in 1..n}] :
                            \A d \in 1..n : st[d] \in docs[d]}
          /\ remote \in [1..n -> remotes]
    /\ phase = "start"
    /\ users = <<>>
    /\ units = <<>>
    /\ semaphore = config.CONCURRENT_REQUESTS
    /\ updates = <<>>
    /\ batch_i = 0
    /\ total_modified = 0
    /\ writes = <<>>
    /\ stats = NoStats
    /\ clock = 1

\* Every document has a user_id field, except that the first may lack it
UserIds(d) == IF d = 1 THEN {UserIdOf(d), NoUserId} ELSE {UserIdOf(d)}

Found(body) == [status |-> 200, body |-> body]

NotFound == [status |-> 404, body |-> ApiNone]

\* Collections of up to MaxUsers users that differ in their phone number only
RunDocs ==
    [d \in 1..MaxUsers |->
        {Document(d, uid, "111", None, None) : uid \in UserIds(d)}]

RunRemotes ==
    {NotFound} \cup {Found(ApiData("dict", p, None, None)) : p \in {"111", "999"}}

Init == InitWith(0..MaxUsers, RunDocs, RunRemotes)

Next ==
    \/ GetAllUsers
    \/ GetAllUsersFails
    \/ \E d \in UnitIds : Acquire(d)
    \/ \E d \in UnitIds : RequestDelayOver(d)
    \/ \E d \in UnitIds : Respond200(d)
    \/ \E d \in UnitIds : Respond404(d)
    \/ \E d \in UnitIds : RetryAfterClientError(d)
    \/ \E d \in UnitIds : RetriesExhausted(d)
    \/ \E d \in UnitIds : SwallowedException(d)
    \/ GatherReturns
    \/ BulkWrite
    \/ BulkWriteFails

Spec == Init /\ [][Next]_vars

\* The event loop runs every task that is ready, and every request to the
\* remote service is answered or fails within the client's timeout: a step
\* that can be taken is eventually taken
\* (progress does not depend on the data: every user has a user_id, the
\* remote service does not know the first user and has a new phone number
\* for each of the others, and updates are written in the largest batches)
FairDocs ==
    [d \in 1..MaxUsers |-> {Document(d, UserIdOf(d), "111", None, None)}]

FairRemotes == {NotFound, Found(ApiData("dict", "999", None, None))}

InitFair ==
    /\ InitWith(0..MaxUsers, FairDocs, FairRemotes)
    /\ \A d \in DOMAIN remote : remote[d] = NotFound <=> d = 1
    /\ config.BATCH_SIZE = MaxBatch

SpecFair == InitFair /\ [][Next]_vars /\ WF_vars(Next)

----------------------------------------------------------------------------
(* One user with every combination of stored and fetched values, and the   *)
(* application run again on the collection the previous run left           *)

AllDocs ==
    [d \in {1} |->
        {Document(d, uid, p, c, s) :
            uid \in UserIds(d), p \in FieldValues, c \in FieldValues,
            s \in FieldValues}]

AllRemotes ==
    {NotFound, Found(EmptyDict), Found(NotDict)}
    \cup {Found(ApiData("dict", p, c, s)) :
              p \in FieldValues, c \in FieldValues, s \in FieldValues}

InitOne == InitWith({1}, AllDocs, AllRemotes)

\* main() is run again: a new UserSyncService, a later utcnow()
SyncAgain ==
    /\ phase \in {"done", "failed_listing", "failed_persistence"}
    /\ clock < MaxRuns
    /\ clock' = clock + 1
    /\ phase' = "start"
    /\ users' = <<>>
    /\ units' = <<>>
    /\ semaphore' = config.CONCURRENT_REQUESTS
    /\ updates' = <<>>
    /\ batch_i' = 0
    /\ total_modified' = 0
    /\ stats' = NoStats
    /\ UNCHANGED <<config, store, remote, writes>>

NextAgain ==
    \/ Next
    \/ SyncAgain

SpecOne == InitOne /\ [][NextAgain]_vars

----------------------------------------------------------------------------
(* The scenario of three records A, B, C with phone numbers 111, 222, 333  *)
(* and a remote service that has A unchanged, B with phone number 999 and  *)
(* does not know C                                                         *)

ScenarioPhones == <<"111", "222", "333">>

ScenarioDocs ==
    [d \in DOMAIN ScenarioPhones |->
        {Document(d, UserIdOf(d), ScenarioPhones[d], None, None)}]

ScenarioRemote ==
    <<Found(ApiData("dict", "111", None, None)),
      Found(ApiData("dict", "999", None, None)),
      NotFound>>

InitScenario ==
    /\ InitWith({Len(ScenarioPhones)}, ScenarioDocs,
                {ScenarioRemote[d] : d \in DOMAIN ScenarioRemote})
    /\ remote = ScenarioRemote

SpecScenario == InitScenario /\ [][Next]_vars

----------------------------------------------------------------------------
(* Vocabulary of the properties *)

UnitsInLookup == {d \in DOMAIN units : units[d].pc = "lookup"}

UnitsWaiting == {d \in DOMAIN units : units[d].pc = "waiting"}

\* The units whose lookup or comparison raised
Faulted == {d \in DOMAIN units : units[d].cause \in {"lookup_failed", "fault"}}

\* The units whose lookup failed terminally (RetryError after the last attempt)
LookupFailed == {d \in DOMAIN units : units[d].cause = "lookup_failed"}

\* The tracked fields of listed user d that differ from the fetched body
Differing(d) == {f \in TrackedFields : users[d][f] # remote[d].body[f]}

\* Unit d was answered 200 with a JSON object and nothing raised
AnsweredWithObject(d) ==
    /\ units[d].pc = "done"
    /\ d \notin Faulted
    /\ remote[d].status = 200
    /\ remote[d].body.kind \in {"dict", "empty_dict"}

\* The operations submitted by the bulk_write calls from the k-th on
RECURSIVE WrittenFrom(_)
WrittenFrom(k) ==
    IF k > Len(writes) THEN <<>> ELSE writes[k].batch \o WrittenFrom(k + 1)

Written == WrittenFrom(1)

\* The operations submitted for the identifier of listed user d
WrittenFor(d) ==
    {k \in 1..Len(Written) : Written[k].filter = Identifier(users[d])}

RECURSIVE ReportedFrom(_)
ReportedFrom(k) ==
    IF k > Len(writes) THEN 0 ELSE writes[k].modified_count + ReportedFrom(k + 1)

----------------------------------------------------------------------------
(* C1 *)

\* C1: in every reachable state the number of units inside get_user_info
\* (any attempt, any backoff wait) is at most CONCURRENT_REQUESTS.
C1_ConcurrencyBound ==
    Cardinality(UnitsInLookup) <= config.CONCURRENT_REQUESTS

\* As many lookups in flight as there are slots, and a unit waiting for one
C1_Witness ==
    /\ Cardinality(UnitsInLookup) = config.CONCURRENT_REQUESTS
    /\ UnitsWaiting # {}

----------------------------------------------------------------------------
(* C2 *)

C2_Barrier ==
    (phase \in {"persist", "done", "failed_persistence"} \/ writes # <<>>)
        => /\ Len(units) = Len(users)
           /\ \A d \in DOMAIN units :
                 /\ units[d].pc = "done"
                 /\ units[d].result.type \in {"None", "UserUpdate", "Exception"}

C2_OutcomeOnce ==
    \A d \in DOMAIN units : units[d].pc = "done" => units'[d] = units[d]

\* C2: no bulk_update_users call and no bulk_write is issued while a unit
\* has not produced its outcome; every listed user has one outcome when
\* persistence begins, and an outcome, once produced, is never replaced.
C2_FullBarrier == [](C2_Barrier) /\ [][C2_OutcomeOnce]_vars

\* A bulk_write was issued in a run of two users, one with and one without
\* an update
C2_Witness ==
    /\ writes # <<>>
    /\ Len(users) >= 2
    /\ \E d \in DOMAIN units : units[d].result.type = "None"

----------------------------------------------------------------------------
(* C3 *)

\* C3: if the lookup fails terminally for exactly k of m listed records,
\* k < m, the returned statistics have errors = k and users_checked = m - k,
\* and only payloads of non-error records are submitted.
C3_ErrorIsolation ==
    (phase = "done" /\ Cardinality(LookupFailed) < Len(users))
        => /\ stats.errors = Cardinality(LookupFailed)
           /\ stats.users_checked = Len(users) - Cardinality(LookupFailed)
           /\ \A d \in LookupFailed : WrittenFor(d) = {}

----------------------------------------------------------------------------
(* C4 *)

C4_Absorbed ==
    phase = "done"
        => /\ \A d \in DOMAIN users : units[d].pc = "done"
           /\ stats.total_users = Len(users)
           /\ \A d \in DOMAIN users :
                 (AnsweredWithObject(d) /\ remote[d].body.kind = "dict"
                  /\ Differing(d) # {})
                     => Cardinality(WrittenFor(d)) = 1

C4_FailsOnlyInStore ==
    (phase' \in {"failed_listing", "failed_persistence"} /\ phase' # phase)
        => \/ phase = "start" /\ phase' = "failed_listing"
           \/ phase = "persist" /\ phase' = "failed_persistence"

\* C4: a fault of one record's lookup or comparison never makes sync_users
\* raise (the run fails only in the listing or in a bulk_write); when the
\* statistics are returned every unit has an outcome and every record with
\* drift whose lookup did not fail has its update submitted.
C4_FaultNeverEscapes == [](C4_Absorbed) /\ [][C4_FailsOnlyInStore]_vars

\* Statistics returned by a run in which one lookup failed terminally and
\* the update of another record was written
C4_Witness ==
    /\ phase = "done"
    /\ LookupFailed # {}
    /\ \E d \in DOMAIN users : d \notin Faulted /\ WrittenFor(d) # {}

----------------------------------------------------------------------------
(* C5 *)

\* C5: for every stored record and every fetched attributes value the unit
\* produces an update payload if and only if at least one tracked field
\* differs (None on both sides is equal), and the payload carries the new
\* value of every differing field.
C5_DiffCorrectness ==
    \A d \in DOMAIN units :
        AnsweredWithObject(d)
            => /\ units[d].result.type = "UserUpdate" <=> Differing(d) # {}
               /\ units[d].result.type = "UserUpdate"
                     => \A f \in Differing(d) :
                           units[d].result.update[f] = remote[d].body[f]

----------------------------------------------------------------------------
(* C6 *)

\* The tracked fields of user d that are stored and that the fetched
\* object (one with at least one key) gives as null or leaves out
Cleared(d) ==
    {f \in TrackedFields :
        /\ remote[d].body.kind = "dict"
        /\ users[d][f] # None
        /\ remote[d].body[f] = None}

\* A payload is produced for a record with a cleared field
C6_PayloadProduced ==
    \A d \in DOMAIN units :
        (AnsweredWithObject(d) /\ Cleared(d) # {})
            => units[d].result.type = "UserUpdate"

\* After the bulk_write that modified the record the cleared field is None
C6_FieldCleared ==
    \A d \in DOMAIN units :
        (phase = "done" /\ AnsweredWithObject(d) /\ stats.users_updated = 1)
            => \A f \in Cleared(d) : store[d][f] = None

\* A run after one that modified the record detects no drift for it
C6_SecondRunClean ==
    \A d \in DOMAIN units :
        (clock = 2 /\ phase = "gather" /\ AnsweredWithObject(d)
         /\ remote[d].body.kind = "dict"
         /\ \E k \in 1..Len(writes) : writes[k].modified_count = 1)
            => units[d].result.type = "None"

\* C6: a tracked field that is stored and is null in the fetched attributes
\* yields an update payload, the persistence step clears the stored field,
\* and a second run against the same remote data detects no drift.
C6_ClearingAuthoritative ==
    C6_PayloadProduced /\ C6_FieldCleared /\ C6_SecondRunClean

----------------------------------------------------------------------------
(* C7 *)

----------------------------------------------------------------------------
(* C8 *)

CeilDiv(p, c) == (p + c - 1) \div c

\* The k-th consecutive slice of length c of a sequence
Slice(seq, k, c) == SubSeq(seq, (k - 1) * c + 1, Min(k * c, Len(seq)))

\* C8: the bulk_write calls of bulk_update_users are, in order, the
\* consecutive slices of at most BATCH_SIZE operations of the payload
\* sequence; when it returns it has issued ceil(P / BATCH_SIZE) calls, and
\* every payload was submitted in exactly one of them.
C8_BatchChunking ==
    LET ops == [k \in 1..Len(updates) |->
                   [filter |-> updates[k].user_id,
                    set |-> [f \in {"last_synced"}
                                   \cup {g \in TrackedFields : updates[k][g] # None}
                             |-> updates[k][f]]]]
        c == config.BATCH_SIZE
    IN  /\ \A j \in 1..Len(writes) :
              /\ writes[j].batch = Slice(ops, j, c)
              /\ Len(writes[j].batch) \in 1..c
        /\ phase = "done" /\ updates # <<>>
              => /\ Len(writes) = CeilDiv(Len(updates), c)
                 /\ Written = ops
                 /\ \A k \in 1..Len(updates) :
                       Cardinality({i \in 1..Len(Written) :
                                       Written[i].filter = updates[k].user_id}) = 1

\* bulk_update_users returned after more than one bulk_write
C8_Witness == phase = "done" /\ Len(writes) >= 2

----------------------------------------------------------------------------
(* C9 *)

\* C9: in the returned statistics users_updated is the sum of the
\* modified counts the bulk_write calls reported (the number of documents
\* the run changed), and users_updated <= number of payloads
\* <= users_checked <= total_users.
C9_UpdatedCount ==
    phase = "done"
        => /\ stats.users_updated = ReportedFrom(1)
           /\ stats.users_updated =
                 Cardinality({d \in DOMAIN store : store[d] # users[d]})
           /\ stats.users_updated <= Len(updates)
           /\ Len(updates) <= stats.users_checked
           /\ stats.users_checked <= stats.total_users

\* The store declined an update: fewer documents modified than payloads
C9_Witness ==
    /\ phase = "done"
    /\ Len(writes) >= 2
    /\ stats.users_updated < Len(updates)

----------------------------------------------------------------------------
(* C10 *)

\* C10: in the returned statistics users_checked + errors = total_users.
C10_CheckedPlusErrors ==
    phase = "done" => stats.users_checked + stats.errors = stats.total_users

\* Statistics of a run that mixes a not-found, a failed and a changed record
C10_Witness ==
    /\ phase = "done"
    /\ stats.total_users >= 2
    /\ \E d \in DOMAIN units : units[d].cause \in {"lookup_failed", "not_found"}
    /\ \E d \in DOMAIN units : units[d].cause = "updated"

----------------------------------------------------------------------------
(* C11 *)

\* The units that produced an update payload
Producers == {d \in DOMAIN units : units[d].result.type = "UserUpdate"}

\* bulk_update_users has been called in this run
PersistenceInvoked == phase \in {"persist", "failed_persistence"} \/ writes # <<>>

C11_SkipOrSubmit ==
    /\ (Producers = {} /\ phase \in {"persist", "done", "failed_persistence"})
          => /\ ~PersistenceInvoked
             /\ phase = "done"
             /\ stats.users_updated = 0
    /\ PersistenceInvoked
          => /\ Len(updates) = Cardinality(Producers)
             /\ \A d \in Producers :
                   \E k \in 1..Len(updates) : updates[k] = units[d].result.update
    /\ (phase = "done" /\ Producers # {}) => writes # <<>>

C11_InvokedOnce ==
    PersistenceInvoked
        => /\ phase' \in {"persist", "done", "failed_persistence"}
           /\ updates' = updates

\* C11: when no unit produced a payload the run issues no persistence call
\* and returns users_updated = 0; otherwise bulk_update_users is invoked
\* once, with exactly the produced payloads.
C11_PersistenceOnlyWithPayloads ==
    [](C11_SkipOrSubmit) /\ [][C11_InvokedOnce]_vars

\* Statistics returned by a run of two users in which no payload was produced
C11_Witness ==
    /\ phase = "done"
    /\ Len(users) >= 2
    /\ Producers = {}
    /\ writes = <<>>

----------------------------------------------------------------------------
(* C12 *)

\* After a listing fault: no statistics, no unit was created (so no lookup
\* was issued), no bulk_write was issued
C12_NothingDone ==
    phase = "failed_listing"
        => /\ stats = NoStats
           /\ users = <<>>
           /\ units = <<>>
           /\ updates = <<>>
           /\ writes = <<>>

\* A step out of the listing that does not deliver the stored documents is
\* the end of the run, and the failed run takes no further step
C12_Fatal ==
    /\ (phase = "start" /\ phase' # "start" /\ users' # store)
          => phase' = "failed_listing"
    /\ phase # "failed_listing"

\* C12: when get_all_users raises, sync_users raises: it returns no
\* statistics, and no lookup and no persistence call is issued in that run.
C12_ListingFaultFatal == [](C12_NothingDone) /\ [][C12_Fatal]_vars

\* The listing of a collection that holds documents has failed
C12_Witness == phase = "failed_listing" /\ Len(store) >= 2

----------------------------------------------------------------------------
(* C13 *)

\* The documents that an operation of an answered bulk_write matched
Touched ==
    {d \in DOMAIN store :
        \E k \in 1..Len(Written) : Written[k].filter = store[d].user_id}

\* The documents that an operation handed to bulk_update_users matches
Targeted ==
    {d \in DOMAIN store :
        \E k \in 1..Len(updates) : updates[k].user_id = store[d].user_id}

\* After a persistence fault: no statistics, and the store holds what the
\* bulk_write calls answered before the fault have written
C13_NoRollback ==
    phase = "failed_persistence"
        => /\ stats = NoStats
           /\ \A d \in Touched : store[d].last_synced = clock
           /\ \A d \in DOMAIN store \ Targeted : store[d] = users[d]
           /\ Len(Written) < Len(updates)

\* A bulk_write that is not answered ends the run where it is, and the
\* failed run takes no further step (no later chunk, no statistics)
C13_Fatal ==
    /\ (phase = "persist" /\ writes' = writes)
          => /\ phase' = "failed_persistence"
             /\ stats' = NoStats
             /\ \A d \in Touched : store'[d] = store[d]
    /\ phase # "failed_persistence"

\* C13: a fault in a bulk_write is fatal: no later chunk is issued,
\* sync_users raises and returns no statistics, and what the earlier
\* chunks wrote stays written.
C13_PersistenceFaultFatal == [](C13_NoRollback) /\ [][C13_Fatal]_vars

\* The second bulk_write failed after the first had modified a document
C13_Witness ==
    /\ phase = "failed_persistence"
    /\ Len(writes) >= 1
    /\ \E d \in DOMAIN store : store[d] # users[d]

----------------------------------------------------------------------------
(* C14 *)

\* The operations of a batch whose filter matches a stored document
MatchedOps(batch) ==
    {k \in 1..Len(batch) :
        \E d \in DOMAIN store : store[d].user_id = batch[k].filter}

\* C14: persistence is a partial-field update without upsert: a run
\* creates no document, leaves every document whose identifier is not
\* among the submitted payloads as it was, changes of a document only the
\* fields a payload for it carries, and a payload that matches no document
\* adds nothing to the modified count.
C14_NoUpsertPartialUpdate ==
    phase \in {"gather", "persist", "done", "failed_persistence"}
        => /\ Len(store) = Len(users)
           /\ \A d \in DOMAIN store :
                 /\ store[d]._id = users[d]._id
                 /\ store[d].user_id = users[d].user_id
                 /\ d \notin Targeted => store[d] = users[d]
                 /\ \A f \in TrackedFields :
                       store[d][f] # users[d][f]
                           => \E k \in 1..Len(updates) :
                                 /\ updates[k].user_id = store[d].user_id
                                 /\ updates[k][f] = store[d][f]
           /\ \A j \in 1..Len(writes) :
                 writes[j].modified_count = Cardinality(MatchedOps(writes[j].batch))

\* Statistics returned after a payload matched no document and another
\* payload modified its document
C14_Witness ==
    /\ phase = "done"
    /\ \E j \in 1..Len(writes) :
          MatchedOps(writes[j].batch) # DOMAIN writes[j].batch
    /\ \E d \in DOMAIN store : store[d] # users[d]
    /\ \E d \in DOMAIN store : d \notin Targeted

----------------------------------------------------------------------------
(* C15 *)

\* The units whose lookup was answered 404
NotFoundUnits == {d \in DOMAIN units : units[d].cause = "not_found"}

\* C15: a record whose lookup is answered 404 has the outcome None: no
\* update payload and no exception, so it is counted in users_checked and
\* not in errors, nothing is written for it and its document stays as it
\* was listed.
C15_NotFoundIsNoError ==
    /\ \A d \in NotFoundUnits :
          /\ units[d].result.type = "None"
          /\ WrittenFor(d) = {}
          /\ \A k \in 1..Len(updates) : updates[k].user_id # Identifier(users[d])
          /\ store[d] = users[d]
    /\ phase = "done"
          => /\ stats.users_checked >= Cardinality(NotFoundUnits)
             /\ stats.errors <= Len(users) - Cardinality(NotFoundUnits)

\* Statistics returned by a run with a not-found record and a written update
C15_Witness ==
    /\ phase = "done"
    /\ NotFoundUnits # {}
    /\ writes # <<>>

----------------------------------------------------------------------------
(* C16 *)

\* The run of the scenario in which every lookup was answered
ScenarioRunReturned == phase = "done" /\ Faulted = {}

\* The only persisted update: record B, phone number 999 (and last_synced)
ScenarioWrite ==
    <<[filter |-> UserIdOf(2),
       set |-> [last_synced |-> clock, phone_number |-> "999"]]>>

\* C16 as stated: the run returns total_users 3, users_checked 2,
\* users_updated 1, errors 0, and the only persisted update is B's phone.
C16_ScenarioChecked2 ==
    ScenarioRunReturned
        => /\ stats = [total_users |-> 3, users_checked |-> 2,
                       users_updated |-> 1, errors |-> 0]
           /\ Written = ScenarioWrite

\* C16 amended: the run returns total_users 3, users_checked 3 (the record
\* that is not found is counted as checked), users_updated 1, errors 0, and
\* the only persisted update is for record B and sets, besides last_synced,
\* only its phone number.
C16_ScenarioChecked3 ==
    ScenarioRunReturned
        => /\ stats = [total_users |-> 3, users_checked |-> 3,
                       users_updated |-> 1, errors |-> 0]
           /\ Written = ScenarioWrite
           /\ store[2].phone_number = "999"
           /\ \A d \in {1, 3} : store[d] = users[d]

\* The scenario's run has returned its statistics
C16_Witness ==
    /\ ScenarioRunReturned
    /\ Len(users) = 3
    /\ units[3].cause = "not_found"
    /\ units[2].cause = "updated"
    /\ units[1].cause = "unchanged"

----------------------------------------------------------------------------
(* C17 *)

\* The run in which every lookup failed on each of its attempts
AllLookupsFailed ==
    /\ phase = "done"
    /\ Len(users) >= 1
    /\ LookupFailed = DOMAIN units

\* C17: when every lookup of a run fails on every attempt, each lookup has
\* made all its attempts, the run returns users_checked 0, errors equal to
\* total_users and users_updated 0, and persistence is never invoked.
C17_AllTransientFailures ==
    AllLookupsFailed
        => /\ \A d \in DOMAIN units : units[d].attempt = StopAfterAttempt
           /\ stats.users_checked = 0
           /\ stats.errors = stats.total_users
           /\ stats.users_updated = 0
           /\ writes = <<>>

----------------------------------------------------------------------------
(* C18 *)

\* One unit per listed record, each with at most 3 attempts; after gather
\* every unit has made at least one attempt
C18_OncePerRecord ==
    /\ phase # "start" => Len(units) = Len(users)
    /\ \A d \in DOMAIN units : units[d].attempt \in 0..3
    /\ phase \in {"persist", "done", "failed_persistence"}
           => \A d \in DOMAIN units : units[d].attempt \in 1..3

\* A step of unit d: a finished unit is never run again; the first attempt
\* follows the delay; a further attempt follows only a lookup that is still
\* in flight and has made fewer than 3 attempts; an answer ends the lookup
\* with the attempts it has made
C18_UnitStep(d) ==
    /\ units[d].pc = "done" => units'[d] = units[d]
    /\ units'[d].attempt # units[d].attempt
           => /\ units'[d].attempt = units[d].attempt + 1
              /\ units'[d].pc = "lookup"
              /\ \/ units[d].pc = "sleeping" /\ units[d].attempt = 0
                 \/ units[d].pc = "lookup" /\ units[d].attempt < 3
    /\ units[d].pc # "done" /\ units'[d].pc = "done"
           => /\ units[d].pc = "lookup"
              /\ units'[d].attempt = units[d].attempt
    /\ units'[d].cause \in {"updated", "unchanged", "not_found", "no_data"}
           => units'[d].pc = "done"

C18_Steps ==
    phase # "start" => /\ DOMAIN units' = DOMAIN units
                         /\ \A d \in DOMAIN units : C18_UnitStep(d)

----------------------------------------------------------------------------
(* C19 *)

\* The run has ended: with its statistics or with a fatal error
RunEnded == phase \in {"done", "failed_listing", "failed_persistence"}

\* The free slots are the N slots less those held by units
C19_SlotAccounting ==
    semaphore = config.CONCURRENT_REQUESTS
                    - Cardinality({d \in DOMAIN units : HoldsSlot(d)})

\* A unit that has an outcome held a slot and made its lookup
C19_OutcomeAfterSlot ==
    \A d \in DOMAIN units : units[d].pc = "done" => units[d].attempt >= 1

C19_AllFreeAtEnd ==
    RunEnded => /\ semaphore = config.CONCURRENT_REQUESTS
                /\ \A d \in DOMAIN units : units[d].pc = "done"

\* C19: every unit gives its slot back however it returns, so the units that
\* wait all eventually acquire a slot, the run eventually ends (with its
\* statistics or a fatal error), and when it has ended every unit has an
\* outcome and all N slots are free.
C19_SlotReleaseAndProgress ==
    /\ [](C19_SlotAccounting /\ C19_OutcomeAfterSlot /\ C19_AllFreeAtEnd)
    /\ <>RunEnded
    /\ (UnitsWaiting # {}) ~> (units # <<>> /\ UnitsWaiting = {})

\* A run with more users than slots has ended, with a caught exception and
\* an answered lookup among its units
C19_Witness ==
    /\ phase = "done"
    /\ Len(users) > config.CONCURRENT_REQUESTS
    /\ semaphore = config.CONCURRENT_REQUESTS
    /\ Faulted # {}
    /\ Faulted # DOMAIN units

----------------------------------------------------------------------------
(* C20 *)

\* Listed user d was answered with an object of non-null values that differ
\* from the stored ones, and the run has ended with its statistics
DriftFetched(d) ==
    /\ phase = "done"
    /\ AnsweredWithObject(d)
    /\ remote[d].body.kind = "dict"
    /\ Differing(d) # {}
    /\ \A f \in TrackedFields : remote[d].body[f] # None

\* C20: every listed record with drift, a record without user_id included,
\* whose fetched values are non-null ends the run with its tracked fields
\* equal to the fetched values.
C20_IdentifierConsistency ==
    \A d \in DOMAIN users :
        DriftFetched(d) =>
            \A f \in TrackedFields : store[d][f] = remote[d].body[f]

====
